---- MODULE Spec2Model ----
(***************************************************************************)
(* Model of the rocky-stats data pipeline (data_utils.py, config.py and    *)
(* the share views of plot_utils.py): the cached fetcher, the EPEL and     *)
(* DockerHub loaders, the pivot/filter/total transforms.                   *)
(***************************************************************************)
EXTENDS Integers, Sequences, FiniteSets, TLC

VARIABLES
    fs,        \* the cache directory and file: [dir, exists, content, mtime]
    now,       \* the wall clock (datetime.now()), in days
    call,      \* the last download_file call: inputs, outcome, file before/after
    epelCsv,   \* the parsed EPEL CSV (pd.read_csv result), rows labelled 0..n-1
    df,        \* the current EPEL dataframe (sequence of labelled rows)
    dhCsv,     \* the parsed DockerHub CSV: [dates, cols, val]
    table,     \* the current canonical table: [index, columns, cell]
    op,        \* the last table/dataframe operation: name, arguments, input, status
    shares,    \* the series handed to the plot by the last share view
    totalFrom, \* the table whose columns the current 'total' column sums
    mem        \* the dataframe objects in memory and the caller's references:
               \* [heap, arg, cur, calls, orig, modified]

vars == <<fs, now, call, epelCsv, df, dhCsv, table, op, shares, totalFrom, mem>>

(***************************************************************************)
(* Bounds                                                                  *)
(***************************************************************************)
MaxClock == 10      \* last clock value explored
BodyChunks == 2     \* chunks in a complete response body
MaxRows == 2        \* rows in the EPEL CSV
MaxDates == 3       \* date rows in the DockerHub CSV
MaxPull == 2        \* largest small cumulative pull counter
MaxTableRows == 1   \* rows of a canonical table handed to the table builder
MaxCell == 2        \* largest cell of such a table
MaxCalls == 2       \* transform calls chained on one dataframe
MaxFrameRows == 2   \* rows of the dataframe handed to the transforms

(***************************************************************************)
(* config.py                                                               *)
(***************************************************************************)
CACHE_DAYS == 7

EPEL_REPOS == <<"epel-8", "epel-9", "epel-10">>
ERROR_DATES == <<20230507, 20230514, 20231029, 20231105>>   \* dates as YYYYMMDD
DISTROS == <<"AlmaLinux", "CentOS Linux", "CentOS Stream", "Oracle Linux Server",
             "Red Hat Enterprise Linux", "Rocky Linux">>
CURRENT_DISTROS == <<"AlmaLinux", "CentOS Stream", "Oracle Linux Server",
                     "Red Hat Enterprise Linux", "Rocky Linux">>
DH_DISTROS == <<"AlmaLinux", "CentOS Linux", "Oracle Linux Server",
                "Red Hat Enterprise Linux", "Rocky Linux">>
EMPHASIZE == "Rocky Linux"
VALID_ROCKY_VERSIONS == <<"8.3", "8.4", "8.5", "8.6", "8.7", "8.8", "8.9", "8.10",
                          "9.0", "9.1", "9.2", "9.3", "9.4", "9.5", "9.6", "10.0">>

Range(s) == {s[i] : i \in DOMAIN s}

(***************************************************************************)
(* Fetcher: download_file / _download_with_progress                        *)
(***************************************************************************)
RemoteBody == [i \in 1..BodyChunks |-> i]
OldBody == [i \in 1..BodyChunks |-> 100 + i]
ErrorBody == <<404>>

NoFile == [dir |-> FALSE, exists |-> FALSE, content |-> <<>>, mtime |-> 0]
NoCall == [made |-> FALSE, pre |-> NoFile, post |-> NoFile, at |-> 0,
           net |-> FALSE, outcome |-> "none", raised |-> FALSE, msg |-> "none",
           prevFailed |-> FALSE]

\* What the network does to one requests.get + iter_content.
NetOutcomes == {"ok", "unreachable", "http_error", "interrupted"}

FailedOutcomes == {"unreachable", "http_error", "interrupted"}

\* os.path.exists(local_path) and the age test of download_file
IsStaleAlt(f, t) == t - f.mtime >= CACHE_DAYS
IsStale(f, t) == t - f.mtime > CACHE_DAYS

NeedsDownload(f, t) == IF f.exists THEN IsStale(f, t) ELSE TRUE

\* open(local_path, "wb"): creates or truncates the file
OpenWb(f, t) == [f EXCEPT !.exists = TRUE, !.content = <<>>, !.mtime = t]

\* file.write(data) for the first k chunks of body
WriteChunks(f, body, k, t) ==
    [f EXCEPT !.content = f.content \o SubSeq(body, 1, k), !.mtime = t]

\* _download_with_progress: the file it leaves behind.  requests.get raises
\* before the file is opened; a response with an error status is streamed to
\* the file like any other; a broken stream leaves the chunks written so far.
DownloadWithProgress(f, outcome, k, t) ==
    CASE outcome = "unreachable" -> f
      [] outcome = "ok" -> WriteChunks(OpenWb(f, t), RemoteBody, BodyChunks, t)
      [] outcome = "http_error" -> WriteChunks(OpenWb(f, t), ErrorBody, Len(ErrorBody), t)
      [] outcome = "interrupted" -> WriteChunks(OpenWb(f, t), RemoteBody, k, t)

DownloadRaises(outcome) == outcome \in {"unreachable", "interrupted"}

\* os.makedirs(local_dir) when the directory is missing
MakeDirs(f) == [f EXCEPT !.dir = TRUE]

DownloadFile ==
    \E outcome \in NetOutcomes, k \in 0..(BodyChunks - 1) :
        LET f0 == MakeDirs(fs)
            net == NeedsDownload(f0, now)
            f1 == IF net THEN DownloadWithProgress(f0, outcome, k, now) ELSE f0
        IN  /\ (outcome # "interrupted") => k = 0
            /\ (~net) => outcome = "ok"
            /\ fs' = f1
            /\ call' = [made |-> TRUE, pre |-> fs, post |-> f1, at |-> now,
                        net |-> net,
                        outcome |-> IF net THEN outcome ELSE "none",
                        raised |-> net /\ DownloadRaises(outcome),
                        msg |-> IF ~net THEN "up to date"
                                ELSE IF DownloadRaises(outcome) THEN "none"
                                ELSE "downloaded successfully",
                        \* the call before this one went to the network and failed
                        prevFailed |-> call.made /\ call.net
                                        /\ call.outcome \in FailedOutcomes]
            /\ UNCHANGED <<now, epelCsv, df, dhCsv, table, op, shares, totalFrom, mem>>

\* time passes between calls
Tick ==
    /\ now < MaxClock
    /\ now' = now + 1
    /\ UNCHANGED <<fs, call, epelCsv, df, dhCsv, table, op, shares, totalFrom, mem>>

EmptyCsv == <<>>
EmptyDh == [dates |-> <<>>, cols |-> {}, val |-> <<>>]
EmptyTable == [index |-> <<>>, columns |-> <<>>, cell |-> <<>>]
NoOp == [name |-> "none"]
NoMem == [heap |-> <<>>, arg |-> 0, cur |-> 0, calls |-> 0, orig |-> 0, modified |-> FALSE]

InitFetch ==
    /\ now \in 0..MaxClock
    /\ fs \in {NoFile, MakeDirs(NoFile)} \cup
              {[dir |-> TRUE, exists |-> TRUE, content |-> OldBody, mtime |-> m] :
                    m \in 0..MaxClock}
    /\ call = NoCall
    /\ epelCsv = EmptyCsv /\ df = <<>> /\ dhCsv = EmptyDh
    /\ table = EmptyTable /\ op = NoOp /\ shares = <<>> /\ totalFrom = EmptyTable /\ mem = NoMem

NextFetch == DownloadFile \/ Tick

SpecFetch == InitFetch /\ [][NextFetch]_vars

(***************************************************************************)
(* C1: download_file goes to the network exactly when the cache file is    *)
(* missing or older than CACHE_DAYS (strictly); a file aged CACHE_DAYS or  *)
(* less is left as it was, content and mtime.                              *)
(***************************************************************************)
C1_CacheFreshness ==
    call.made =>
        /\ call.net <=> (~call.pre.exists \/ call.at - call.pre.mtime > CACHE_DAYS)
        /\ (call.pre.exists /\ call.at - call.pre.mtime <= CACHE_DAYS) =>
              /\ call.post.content = call.pre.content
              /\ call.post.mtime = call.pre.mtime
              /\ call.post.exists

C1_Witness ==
    /\ call.made /\ call.pre.exists
    /\ call.at - call.pre.mtime = CACHE_DAYS
    /\ ~call.net /\ call.msg = "up to date"

(***************************************************************************)
(* C2: a failed download (unreachable endpoint, broken stream, non-success *)
(* status) ends in an error and leaves the cache file's content as it was  *)
(* before the call.                                                        *)
(***************************************************************************)
DownloadFailed == call.made /\ call.outcome \in FailedOutcomes

C2_FailureKeepsCache ==
    DownloadFailed =>
        /\ call.raised
        /\ call.post.exists = call.pre.exists
        /\ call.post.content = call.pre.content

(***************************************************************************)
(* C12: a failed download does not make the cache look fresh: the call     *)
(* after a failed download (the cache was missing or stale before it) goes *)
(* to the network again, and the file is reported up to date only when it  *)
(* holds the complete body of a successful download.                       *)
(***************************************************************************)
CompleteBodies == {RemoteBody, OldBody}

C12_FailedDownloadRetried ==
    call.made =>
        /\ call.prevFailed => call.net
        /\ (call.msg = "up to date") => call.pre.content \in CompleteBodies

(***************************************************************************)
(* EPEL normalizer and the dataframe transforms                            *)
(***************************************************************************)
\* pd.read_csv without index_col: rows get the labels 0..n-1 (RangeIndex)
ReadCsv(csv) ==
    [i \in 1..Len(csv) |->
        [idx |-> i - 1, week_end |-> csv[i].week_end, os_name |-> csv[i].os_name,
         repo_tag |-> csv[i].repo_tag, sys_age |-> csv[i].sys_age, hits |-> csv[i].hits]]

\* df[mask], boolean-mask selection, keeps rows, labels and order: SelectSeq

\* df.drop(labels): removes every row whose index label is in labels
DropLabelsAlt(d, labels) ==
    LET keep == {i \in 1..Len(d) : (i - 1) \notin labels}
        RECURSIVE Pick(_)
        Pick(i) == IF i > Len(d) THEN <<>>
                   ELSE (IF i \in keep THEN <<d[i]>> ELSE <<>>) \o Pick(i + 1)
    IN  Pick(1)
DropLabels(d, labels) == SelectSeq(d, LAMBDA r : r.idx \notin labels)

\* the labels of df[df['week_end'] == error_date].index
LabelsOnDate(d, date) == {d[i].idx : i \in {j \in 1..Len(d) : d[j].week_end = date}}

\* for error_date in ERROR_DATES: df = df.drop(...)
RECURSIVE DropErrorDates(_, _)
DropErrorDates(d, dates) ==
    IF dates = <<>> THEN d
    ELSE DropErrorDates(DropLabels(d, LabelsOnDate(d, Head(dates))), Tail(dates))

LoadEpelData(csv) ==
    LET d0 == ReadCsv(csv)
        d1 == SelectSeq(d0, LAMBDA r : r.repo_tag \in Range(EPEL_REPOS))
    IN  DropErrorDates(d1, ERROR_DATES)

\* age_condition is [kind, str, num]: a Python value of type kind, str its
\* text when it is a string and num its numeric value otherwise.
\* isinstance(age_condition, int): bool is a subclass of int in Python
IsInstanceInt(c) == c.kind \in {"int", "bool"}

FilterBySystemAgeAlt(d, c) ==
    IF c.str = "longterm" THEN SelectSeq(d, LAMBDA r : r.sys_age >= 1)
    ELSE IF c.str = "ephemeral" THEN SelectSeq(d, LAMBDA r : r.sys_age = 1)
    ELSE IF IsInstanceInt(c) THEN SelectSeq(d, LAMBDA r : r.sys_age > c.num)
    ELSE d
FilterBySystemAge(d, c) ==
    IF c.str = "longterm" THEN SelectSeq(d, LAMBDA r : r.sys_age > 1)
    ELSE IF c.str = "ephemeral" THEN SelectSeq(d, LAMBDA r : r.sys_age = 1)
    ELSE IF IsInstanceInt(c) THEN SelectSeq(d, LAMBDA r : r.sys_age > c.num)
    ELSE d

\* ascending order of a set of dates / numbers
RECURSIVE SortInts(_)
SortInts(S) ==
    IF S = {} THEN <<>>
    ELSE LET m == CHOOSE x \in S : \A y \in S : x <= y
         IN  <<m>> \o SortInts(S \ {m})

\* lexicographic order of the column labels that occur in the model
LexOrder == <<"AlmaLinux", "CentOS Linux", "CentOS Stream", "Fedora",
              "Oracle Linux Server", "Red Hat Enterprise Linux", "Rocky Linux",
              "total">>
LexRank(name) == CHOOSE i \in 1..Len(LexOrder) : LexOrder[i] = name

RECURSIVE SortNames(_)
SortNames(S) ==
    IF S = {} THEN <<>>
    ELSE LET m == CHOOSE x \in S : \A y \in S : LexRank(x) <= LexRank(y)
         IN  <<m>> \o SortNames(S \ {m})

RECURSIVE SumSeq(_)
SumSeq(s) == IF s = <<>> THEN 0 ELSE Head(s) + SumSeq(Tail(s))

\* pd.pivot_table(df, values, index, columns, fill_value, aggfunc="sum"):
\* one row per index value and one column per column value that occur in df,
\* sorted; a cell is the sum of its group, or fill_value for an empty group
GroupSumAlt(d, values, index, columns, iv, cv) ==
    LET g == SelectSeq(d, LAMBDA r : r[index] = iv /\ r[columns] = cv)
    IN  IF g = <<>> THEN 0 ELSE g[1][values]
GroupSum(d, values, index, columns, iv, cv) ==
    LET g == SelectSeq(d, LAMBDA r : r[index] = iv /\ r[columns] = cv)
    IN  SumSeq([i \in 1..Len(g) |-> g[i][values]])

HasGroup(d, index, columns, iv, cv) ==
    \E i \in 1..Len(d) : d[i][index] = iv /\ d[i][columns] = cv

CreatePivotTable(d, values, index, columns, fill_value) ==
    LET idx == SortInts({d[i][index] : i \in 1..Len(d)})
        cols == SortNames({d[i][columns] : i \in 1..Len(d)})
    IN  [index |-> idx,
         columns |-> cols,
         cell |-> [i \in 1..Len(idx) |->
                    [c \in Range(cols) |->
                        IF HasGroup(d, index, columns, idx[i], c)
                        THEN GroupSum(d, values, index, columns, idx[i], c)
                        ELSE fill_value]]]

EpelDates == {20230430, 20230514, 20230521}     \* 2023-05-14 is an error date
EpelRows ==
    [week_end : EpelDates, os_name : {"Rocky Linux", "Fedora"},
     repo_tag : {"epel-9", "epel-7"}, sys_age : {0, 1, 2}, hits : {1, 2}]

RECURSIVE SeqsUpTo(_, _)
SeqsUpTo(S, n) ==
    IF n = 0 THEN {<<>>}
    ELSE LET shorter == SeqsUpTo(S, n - 1)
         IN  shorter \cup {Append(s, x) : s \in {t \in shorter : Len(t) = n - 1}, x \in S}

AgeConditions ==
    {[kind |-> "str", str |-> v, num |-> 0] : v \in {"longterm", "ephemeral", "all"}}
    \cup {[kind |-> "int", str |-> "", num |-> v] : v \in 0..2}
    \cup {[kind |-> "bool", str |-> "", num |-> 1],      \* True
          [kind |-> "float", str |-> "", num |-> 1],     \* 1.0
          [kind |-> "none", str |-> "", num |-> 0]}      \* None

FillValues == {0, -1}

LoadEpel ==
    /\ op.name = "none"
    /\ df' = LoadEpelData(epelCsv)
    /\ op' = [name |-> "load_epel_data"]
    /\ UNCHANGED <<fs, now, call, epelCsv, dhCsv, table, shares, totalFrom, mem>>

FilterAge ==
    /\ op.name = "load_epel_data"
    /\ \E c \in AgeConditions :
          /\ df' = FilterBySystemAge(df, c)
          /\ op' = [name |-> "filter_by_system_age", arg |-> c, input |-> df]
    /\ UNCHANGED <<fs, now, call, epelCsv, dhCsv, table, shares, totalFrom, mem>>

Pivot ==
    /\ op.name = "load_epel_data"
    /\ \E fill \in FillValues :
          /\ table' = CreatePivotTable(df, "hits", "week_end", "os_name", fill)
          /\ op' = [name |-> "create_pivot_table", arg |-> fill, input |-> df]
    /\ UNCHANGED <<fs, now, call, epelCsv, df, dhCsv, shares, totalFrom, mem>>

InitEpel ==
    /\ epelCsv \in SeqsUpTo(EpelRows, MaxRows)
    /\ fs = NoFile /\ now = 0 /\ call = NoCall
    /\ df = <<>> /\ dhCsv = EmptyDh
    /\ table = EmptyTable /\ op = NoOp /\ shares = <<>> /\ totalFrom = EmptyTable /\ mem = NoMem

NextEpel == LoadEpel \/ FilterAge \/ Pivot

SpecEpel == InitEpel /\ [][NextEpel]_vars

(***************************************************************************)
(* C6: load_epel_data keeps exactly the rows with a configured repo_tag    *)
(* whose week_end is not one of ERROR_DATES, unchanged and in input order. *)
(***************************************************************************)
KeptByLoad(r) == r.repo_tag \in Range(EPEL_REPOS) /\ r.week_end \notin Range(ERROR_DATES)

C6_ErrorDatesExact ==
    op.name = "load_epel_data" =>
        /\ \A i \in 1..Len(df) : df[i].week_end \notin Range(ERROR_DATES)
        /\ df = SelectSeq(ReadCsv(epelCsv), KeptByLoad)

\* a removed row and a kept row that differ in week_end only
C6_Witness ==
    /\ op.name = "load_epel_data"
    /\ Len(epelCsv) = 2 /\ Len(df) = 1
    /\ epelCsv[1].week_end \in Range(ERROR_DATES)
    /\ epelCsv[2] = [epelCsv[1] EXCEPT !.week_end = 20230430]
    /\ epelCsv[2].repo_tag = "epel-9"

(***************************************************************************)
(* C7: filter_by_system_age keeps sys_age > 1 for 'longterm', sys_age = 1  *)
(* for 'ephemeral', sys_age > c for an integer c, and every row for any    *)
(* other argument; longterm and ephemeral are disjoint and cover every row *)
(* with sys_age >= 1.                                                      *)
(***************************************************************************)
C7_SystemAgeBuckets ==
    op.name = "filter_by_system_age" =>
        LET c == op.arg
            d == op.input
            long == FilterBySystemAge(d, [kind |-> "str", str |-> "longterm", num |-> 0])
            eph == FilterBySystemAge(d, [kind |-> "str", str |-> "ephemeral", num |-> 0])
        IN  /\ (c.str = "longterm") =>
                    df = SelectSeq(d, LAMBDA r : r.sys_age > 1)
            /\ (c.str = "ephemeral") =>
                    df = SelectSeq(d, LAMBDA r : r.sys_age = 1)
            /\ c.kind \in {"int", "bool"} =>
                    df = SelectSeq(d, LAMBDA r : r.sys_age > c.num)
            /\ (c.kind \in {"float", "none"}
                  \/ (c.kind = "str" /\ c.str \notin {"longterm", "ephemeral"})) =>
                    df = d
            /\ Range(long) \cap Range(eph) = {}
            /\ Range(long) \cup Range(eph) = {r \in Range(d) : r.sys_age >= 1}

C7_Witness ==
    /\ op.name = "filter_by_system_age"
    /\ op.arg.str = "longterm"
    /\ Len(op.input) = 2 /\ Len(df) = 1
    /\ \E i \in 1..2 : op.input[i].sys_age = 1

(***************************************************************************)
(* C10: every cell of the pivot table is the sum of the value field over   *)
(* the rows of its (index, column) group, or fill_value when the group is  *)
(* empty; index and columns are the values that occur in the rows.         *)
(***************************************************************************)
CellRows(d, iv, cv) == {i \in 1..Len(d) : d[i].week_end = iv /\ d[i].os_name = cv}

RECURSIVE SumHits(_, _)
SumHits(d, S) ==
    IF S = {} THEN 0
    ELSE LET i == CHOOSE j \in S : TRUE IN d[i].hits + SumHits(d, S \ {i})

C10_PivotCells ==
    op.name = "create_pivot_table" =>
        LET d == op.input
        IN  /\ Range(table.index) = {d[i].week_end : i \in 1..Len(d)}
            /\ Range(table.columns) = {d[i].os_name : i \in 1..Len(d)}
            /\ \A i \in 1..Len(table.index) :
                  /\ DOMAIN table.cell[i] = Range(table.columns)
                  /\ \A c \in Range(table.columns) :
                        LET g == CellRows(d, table.index[i], c)
                        IN  table.cell[i][c] =
                                IF g = {} THEN op.arg ELSE SumHits(d, g)

\* a table with an empty group filled with a non-default fill value
C10_Witness ==
    /\ op.name = "create_pivot_table" /\ op.arg = -1
    /\ Len(table.index) = 2 /\ Len(table.columns) = 2
    /\ \E i \in 1..2, c \in Range(table.columns) :
          /\ CellRows(op.input, table.index[i], c) = {}
          /\ table.cell[i][c] = -1

(***************************************************************************)
(* Container normalizer: load_dockerhub_data                               *)
(***************************************************************************)
\* the raw columns each output column adds up, in the order of the source
GroupColumns(distro) ==
    CASE distro = "AlmaLinux" ->
            <<"library/almalinux", "almalinux/8-base", "almalinux/8-init",
              "almalinux/8-micro", "almalinux/8-minimal", "almalinux/9-base",
              "almalinux/9-init", "almalinux/9-micro", "almalinux/9-minimal",
              "almalinux/almalinux", "almalinux/amd64", "almalinux/arm64v8",
              "almalinux/i386", "almalinux/ppc64le", "almalinux/s390x">>
      [] distro = "CentOS Linux" -> <<"library/centos">>
      [] distro = "Oracle Linux Server" -> <<"library/oraclelinux">>
      [] distro = "Red Hat Enterprise Linux" ->
            <<"redhat/ubi8", "redhat/ubi8-init", "redhat/ubi8-micro",
              "redhat/ubi8-minimal", "redhat/ubi9", "redhat/ubi9-init",
              "redhat/ubi9-micro", "redhat/ubi9-minimal">>
      [] distro = "Rocky Linux" -> <<"library/rockylinux", "rockylinux/rockylinux">>

\* the order in which load_dockerhub_data evaluates its df[...] lookups
AssignOrder == <<"AlmaLinux", "CentOS Linux", "Oracle Linux Server",
                 "Red Hat Enterprise Linux", "Rocky Linux">>

RECURSIVE Concat(_)
Concat(ss) == IF ss = <<>> THEN <<>> ELSE Head(ss) \o Concat(Tail(ss))

LookupOrder == Concat([i \in 1..Len(AssignOrder) |-> GroupColumns(AssignOrder[i])])

\* pd.read_csv(index_col=0).diff().iloc[1:]: row i of the result is
\* value[i+1] - value[i] under the date of row i+1
DiffDropFirstAlt(csv) ==
    [dates |-> Tail(csv.dates),
     cols |-> csv.cols,
     val |-> [i \in 1..(Len(csv.dates) - 1) |->
                [c \in csv.cols |-> csv.val[i + 1][c] - csv.val[1][c]]]]
DiffDropFirst(csv) ==
    [dates |-> Tail(csv.dates),
     cols |-> csv.cols,
     val |-> [i \in 1..(Len(csv.dates) - 1) |->
                [c \in csv.cols |-> csv.val[i + 1][c] - csv.val[i][c]]]]

\* df[a] + df[b] + ... : element-wise sum of the listed columns at row i
RECURSIVE AddColumns(_, _, _)
AddColumns(d, cols, i) ==
    IF cols = <<>> THEN 0
    ELSE AddColumns(d, SubSeq(cols, 1, Len(cols) - 1), i) + d.val[i][cols[Len(cols)]]

\* df[col] raises KeyError for the first looked-up column that is absent
MissingKeys(csv) == {i \in 1..Len(LookupOrder) : LookupOrder[i] \notin csv.cols}
FirstMissing(csv) ==
    LookupOrder[CHOOSE i \in MissingKeys(csv) : \A j \in MissingKeys(csv) : i <= j]

LoadDockerhubDataAlt(csv) ==
    LET d == DiffDropFirst(csv)
        zero == [dates |-> d.dates, cols |-> d.cols \cup Range(LookupOrder),
                 val |-> [i \in 1..Len(d.dates) |->
                            [c \in d.cols \cup Range(LookupOrder) |->
                                IF c \in d.cols THEN d.val[i][c] ELSE 0]]]
    IN  [status |-> "ok", key |-> "",
         table |-> [index |-> d.dates,
                    columns |-> DH_DISTROS,
                    cell |-> [i \in 1..Len(d.dates) |->
                                [c \in Range(DH_DISTROS) |->
                                    AddColumns(zero, GroupColumns(c), i)]]]]
LoadDockerhubData(csv) ==
    LET d == DiffDropFirst(csv)
    IN  IF MissingKeys(csv) # {}
        THEN [status |-> "KeyError", key |-> FirstMissing(csv), table |-> EmptyTable]
        ELSE [status |-> "ok", key |-> "",
              table |-> [index |-> d.dates,
                         columns |-> DH_DISTROS,
                         cell |-> [i \in 1..Len(d.dates) |->
                                    [c \in Range(DH_DISTROS) |->
                                        AddColumns(d, GroupColumns(c), i)]]]]

LoadDockerhub ==
    /\ op.name = "none"
    /\ LET r == LoadDockerhubData(dhCsv)
       IN  /\ table' = r.table
           /\ op' = [name |-> "load_dockerhub_data", status |-> r.status, key |-> r.key]
    /\ UNCHANGED <<fs, now, call, epelCsv, df, dhCsv, shares, totalFrom, mem>>

\* the inputs: cumulative counters; one column follows its own series, the
\* others a common one; a CSV that lost a column carries the common series
PullValues == (0..MaxPull) \cup {100, 140, 142}
OtherColumn == "library/fedora"
DhDates(n) == [i \in 1..n |-> 20240100 + i]

InitDocker ==
    /\ \E n \in 1..MaxDates, inc \in {0, 1} :
          \/ \E hot \in Range(LookupOrder), series \in [1..n -> PullValues] :
                dhCsv = [dates |-> DhDates(n),
                         cols |-> Range(LookupOrder) \cup {OtherColumn},
                         val |-> [i \in 1..n |->
                                    [c \in Range(LookupOrder) \cup {OtherColumn} |->
                                        IF c = hot THEN series[i] ELSE inc * i]]]
          \/ \E gone \in Range(LookupOrder) :
                dhCsv = [dates |-> DhDates(n),
                         cols |-> (Range(LookupOrder) \cup {OtherColumn}) \ {gone},
                         val |-> [i \in 1..n |->
                                    [c \in (Range(LookupOrder) \cup {OtherColumn}) \ {gone} |->
                                        inc * i]]]
    /\ fs = NoFile /\ now = 0 /\ call = NoCall
    /\ epelCsv = EmptyCsv /\ df = <<>>
    /\ table = EmptyTable /\ op = NoOp /\ shares = <<>> /\ totalFrom = EmptyTable /\ mem = NoMem

NextDocker == LoadDockerhub

SpecDocker == InitDocker /\ [][NextDocker]_vars

(***************************************************************************)
(* C4: when a raw column that an aggregation refers to is absent from the  *)
(* container CSV, load_dockerhub_data fails with an error and returns no   *)
(* table.                                                                  *)
(***************************************************************************)
ReferencedColumns ==
    UNION {Range(GroupColumns(DH_DISTROS[i])) : i \in 1..Len(DH_DISTROS)}

C4_MissingColumnFails ==
    (op.name = "load_dockerhub_data" /\ ~(ReferencedColumns \subseteq dhCsv.cols)) =>
        /\ op.status = "KeyError"
        /\ op.key \in ReferencedColumns \ dhCsv.cols
        /\ table = EmptyTable

C4_Witness ==
    /\ op.name = "load_dockerhub_data" /\ op.status = "KeyError"
    /\ "almalinux/s390x" \notin dhCsv.cols
    /\ Len(dhCsv.dates) = 3

(***************************************************************************)
(* C5: for n date rows the table has n-1 rows under the dates 2..n in      *)
(* input order, and each cell is the sum over the distribution's raw       *)
(* columns of value[i] - value[i-1].                                       *)
(***************************************************************************)
RECURSIVE SumDeltas(_, _, _)
SumDeltas(csv, S, i) ==
    IF S = {} THEN 0
    ELSE LET c == CHOOSE x \in S : TRUE
         IN  (csv.val[i][c] - csv.val[i - 1][c]) + SumDeltas(csv, S \ {c}, i)

C5_DeltaSums ==
    (op.name = "load_dockerhub_data" /\ op.status = "ok") =>
        LET n == Len(dhCsv.dates)
        IN  /\ Len(table.index) = n - 1
            /\ \A i \in 2..n :
                  /\ table.index[i - 1] = dhCsv.dates[i]
                  /\ \A k \in 1..Len(DH_DISTROS) :
                        table.cell[i - 1][DH_DISTROS[k]] =
                            SumDeltas(dhCsv, Range(GroupColumns(DH_DISTROS[k])), i)

\* the cumulative values 100, 140, 142 of a single-column group give 40, 2
C5_Witness ==
    /\ op.name = "load_dockerhub_data" /\ op.status = "ok"
    /\ Len(dhCsv.dates) = 3
    /\ \A i \in 1..3 : dhCsv.val[i]["library/centos"] = <<100, 140, 142>>[i]
    /\ table.cell[1]["CentOS Linux"] = 40 /\ table.cell[2]["CentOS Linux"] = 2

(***************************************************************************)
(* Table builder: add_total_column and the share views of plot_utils       *)
(***************************************************************************)
HasColumn(t, c) == c \in Range(t.columns)

\* df.sum(numeric_only=True, axis=1): the row-wise sum of every column of
\* the frame, a 'total' column that is already there included
RowSum(t, i) == SumSeq([k \in 1..Len(t.columns) |-> t.cell[i][t.columns[k]]])

\* df_copy['total'] = ...: replaces the column in place or appends it
AddTotalColumn(t) ==
    LET cols == IF HasColumn(t, "total") THEN t.columns ELSE Append(t.columns, "total")
    IN  [index |-> t.index,
         columns |-> cols,
         cell |-> [i \in 1..Len(t.index) |->
                    [c \in Range(cols) |->
                        IF c = "total" THEN RowSum(t, i) ELSE t.cell[i][c]]]]

\* plot_stackplot: the emphasized distro first, the others in list order
OrderedDistrosAlt(distro_list, emphasize) ==
    SelectSeq(distro_list, LAMBDA x : x = emphasize)
OrderedDistros(distro_list, emphasize) ==
    SelectSeq(distro_list, LAMBDA x : x = emphasize)
        \o SelectSeq(distro_list, LAMBDA x : x # emphasize)

\* data[distro] / data['total'] as the pair numerator, denominator per row;
\* ratio is FALSE for a series plotted as it is
ShareSeries(t, totals, distro) ==
    [name |-> distro, ratio |-> TRUE,
     series |-> [i \in 1..Len(t.index) |->
                    [num |-> t.cell[i][distro], den |-> totals.cell[i]["total"]]]]
RawSeries(t, distro) ==
    [name |-> distro, ratio |-> FALSE,
     series |-> [i \in 1..Len(t.index) |-> [num |-> t.cell[i][distro], den |-> 1]]]

PlotStackplot(t, distro_list, share, emphasize) ==
    LET present == SelectSeq(OrderedDistros(distro_list, emphasize),
                             LAMBDA x : HasColumn(t, x))
    IN  [k \in 1..Len(present) |->
            IF share /\ HasColumn(t, "total")
            THEN ShareSeries(t, t, present[k])
            ELSE RawSeries(t, present[k])]

\* create_distribution_share_plot: adds the total when it is absent
CreateDistributionSharePlot(t) ==
    LET data == IF HasColumn(t, "total") THEN t ELSE AddTotalColumn(t)
    IN  PlotStackplot(data, DISTROS, TRUE, EMPHASIZE)

\* plot_share_lines_with_trendlines: shares of the listed columns of data
\* against the total of data_with_total
PlotShareLines(t, distro_list) ==
    LET with_total == IF HasColumn(t, "total") THEN t ELSE AddTotalColumn(t)
        present == SelectSeq(distro_list, LAMBDA x : HasColumn(t, x))
    IN  [k \in 1..Len(present) |-> ShareSeries(t, with_total, present[k])]

DistroLists == {DISTROS, CURRENT_DISTROS}

AddTotal ==
    /\ HasColumn(table, "total") => ~HasColumn(totalFrom, "total")
    /\ table' = AddTotalColumn(table)
    /\ totalFrom' = table
    /\ op' = [name |-> "add_total_column", input |-> table]
    /\ UNCHANGED <<fs, now, call, epelCsv, df, dhCsv, shares, mem>>

StackPlot ==
    /\ \E dl \in DistroLists :
          /\ shares' = PlotStackplot(table, dl, TRUE, EMPHASIZE)
          /\ op' = [name |-> "plot_stackplot", arg |-> dl, input |-> table,
                    summed |-> totalFrom]
    /\ UNCHANGED <<fs, now, call, epelCsv, df, dhCsv, table, totalFrom, mem>>

SharePlot ==
    /\ shares' = CreateDistributionSharePlot(table)
    /\ op' = [name |-> "create_distribution_share_plot", arg |-> DISTROS,
              input |-> table,
              summed |-> IF HasColumn(table, "total") THEN totalFrom ELSE table]
    /\ UNCHANGED <<fs, now, call, epelCsv, df, dhCsv, table, totalFrom, mem>>

ShareLines ==
    /\ \E dl \in DistroLists :
          /\ shares' = PlotShareLines(table, dl)
          /\ op' = [name |-> "plot_share_lines_with_trendlines", arg |-> dl,
                    input |-> table,
                    summed |-> IF HasColumn(table, "total") THEN totalFrom ELSE table]
    /\ UNCHANGED <<fs, now, call, epelCsv, df, dhCsv, table, totalFrom, mem>>

\* canonical tables as the loaders and the pivot produce them: sorted
\* distribution columns, no 'total' column yet
TableNames == {"CentOS Linux", "Fedora", "Rocky Linux"}
TableDates(n) == [i \in 1..n |-> 20240100 + i]

InitTable ==
    /\ \E names \in (SUBSET TableNames) \ {{}}, n \in 1..MaxTableRows :
          \E cells \in [1..n -> [names -> 0..MaxCell]] :
              table = [index |-> TableDates(n), columns |-> SortNames(names),
                       cell |-> cells]
    /\ fs = NoFile /\ now = 0 /\ call = NoCall
    /\ epelCsv = EmptyCsv /\ df = <<>> /\ dhCsv = EmptyDh
    /\ op = NoOp /\ shares = <<>> /\ totalFrom = EmptyTable /\ mem = NoMem

NextTable == AddTotal \/ StackPlot \/ SharePlot \/ ShareLines

SpecTable == InitTable /\ [][NextTable]_vars

(***************************************************************************)
(* C3: add_total_column is idempotent: applying it to its own result       *)
(* leaves the 'total' of every row as it is.                               *)
(***************************************************************************)
C3_AddTotalIdempotent ==
    op.name = "add_total_column" =>
        \A i \in 1..Len(table.index) :
            AddTotalColumn(table).cell[i]["total"] = table.cell[i]["total"]

(***************************************************************************)
(* C8: in every row with a non-zero total the shares a share view computes *)
(* sum to 1: the total is the sum of exactly the plotted columns.          *)
(***************************************************************************)
ShareViews == {"plot_stackplot", "create_distribution_share_plot",
               "plot_share_lines_with_trendlines"}

RatioSeries == {k \in 1..Len(shares) : shares[k].ratio}

NumeratorSum(i) == SumSeq([k \in 1..Len(shares) |->
                            IF shares[k].ratio THEN shares[k].series[i].num ELSE 0])

\* the row's denominator when the view computed shares for it
RowsWithShares ==
    {i \in 1..Len(op.input.index) :
        RatioSeries # {} /\ \A k \in RatioSeries : shares[k].series[i].den # 0}

Denominator(i) == shares[CHOOSE k \in RatioSeries : TRUE].series[i].den

C8_SharesSumToOne ==
    op.name \in ShareViews =>
        \A i \in RowsWithShares : NumeratorSum(i) = Denominator(i)

(***************************************************************************)
(* C8 as amended: the denominator is the sum of every column of the table  *)
(* the total was computed from, so in a row with a non-zero total the      *)
(* shares sum to 1 exactly when the summed columns that are not plotted    *)
(* (columns outside distro_list, an earlier 'total' summed again) add up   *)
(* to zero in that row.                                                    *)
(***************************************************************************)
Unplotted(t, distro_list) == {c \in Range(t.columns) : c \notin Range(distro_list)}

RECURSIVE SumCells(_, _, _)
SumCells(t, S, i) ==
    IF S = {} THEN 0
    ELSE LET c == CHOOSE x \in S : TRUE IN t.cell[i][c] + SumCells(t, S \ {c}, i)

C8_SharesSumToOneIffAllPlotted ==
    op.name \in ShareViews =>
        \A i \in RowsWithShares :
            /\ Denominator(i) = SumCells(op.summed, Range(op.summed.columns), i)
            /\ (NumeratorSum(i) = Denominator(i))
                  <=> (SumCells(op.summed, Unplotted(op.summed, op.arg), i) = 0)

\* two plotted columns, nothing else in the table: the shares sum to 1
C8_Witness ==
    /\ op.name = "create_distribution_share_plot"
    /\ op.input.columns = <<"CentOS Linux", "Rocky Linux">>
    /\ Len(shares) = 2
    /\ 1 \in RowsWithShares
    /\ shares[1].series[1] = [num |-> 1, den |-> 3]
    /\ shares[2].series[1] = [num |-> 2, den |-> 3]

(***************************************************************************)
(* The transforms of data_utils as calls on dataframe objects: mem.heap[i] *)
(* is the object with identity i, [kind, rows, tab]; a call takes the      *)
(* object mem.cur and returns a reference.                                 *)
(***************************************************************************)
RowsObject(d) == [kind |-> "rows", rows |-> d, tab |-> EmptyTable]
TableObject(t) == [kind |-> "table", rows |-> <<>>, tab |-> t]

FilterByDate(d, start_date) == SelectSeq(d, LAMBDA r : r.week_end > start_date)
FilterByRepoTag(d, repo_tag) == SelectSeq(d, LAMBDA r : r.repo_tag = repo_tag)
FilterByOsName(d, os_name) == SelectSeq(d, LAMBDA r : r.os_name = os_name)
FilterByArch(d, arch_filter) ==
    IF arch_filter = "altarch" THEN SelectSeq(d, LAMBDA r : r.repo_arch # "x86_64")
    ELSE SelectSeq(d, LAMBDA r : r.repo_arch = arch_filter)
FilterValidRockyVersions(d) ==
    SelectSeq(d, LAMBDA r : r.os_version \in Range(VALID_ROCKY_VERSIONS))

\* filter_by_system_age hands back df itself, not a selection of it, when
\* age_condition is neither of the two names nor an int
ReturnsArgument(c) == ~(c.str \in {"longterm", "ephemeral"}) /\ ~IsInstanceInt(c)

\* df[mask] and df.copy() make a new object; `return df` returns the argument
Alloc(m, obj) ==
    [m EXCEPT !.heap = Append(m.heap, obj), !.arg = m.cur,
              !.cur = Len(m.heap) + 1, !.calls = m.calls + 1]
Same(m) == [m EXCEPT !.arg = m.cur, !.calls = m.calls + 1]

CallFilterBySystemAge(m, c) ==
    IF ReturnsArgument(c) THEN Same(m)
    ELSE Alloc(m, RowsObject(FilterBySystemAge(m.heap[m.cur].rows, c)))

FrameDates == {20230430, 20230521}
FrameRows ==
    [idx : {0}, week_end : FrameDates, os_name : {"Rocky Linux"},
     os_version : {"9.6", "9.7"}, repo_tag : {"epel-9"},
     repo_arch : {"x86_64", "aarch64"}, sys_age : {1, 2}, hits : {1}]

\* the caller may chain another call on the returned object
CanCall(kind) ==
    /\ mem.calls < MaxCalls /\ ~mem.modified
    /\ mem.heap[mem.cur].kind = kind

TransformAge ==
    /\ CanCall("rows")
    /\ \E c \in AgeConditions :
          /\ mem' = CallFilterBySystemAge(mem, c)
          /\ op' = [name |-> "filter_by_system_age", arg |-> c]
    /\ UNCHANGED <<fs, now, call, epelCsv, df, dhCsv, table, shares, totalFrom>>

TransformDate ==
    /\ CanCall("rows")
    /\ \E d \in FrameDates :
          mem' = Alloc(mem, RowsObject(FilterByDate(mem.heap[mem.cur].rows, d)))
    /\ op' = [name |-> "filter_by_date"]
    /\ UNCHANGED <<fs, now, call, epelCsv, df, dhCsv, table, shares, totalFrom>>

TransformRepoTag ==
    /\ CanCall("rows")
    /\ \E t \in {"epel-9", "epel-8"} :
          mem' = Alloc(mem, RowsObject(FilterByRepoTag(mem.heap[mem.cur].rows, t)))
    /\ op' = [name |-> "filter_by_repo_tag"]
    /\ UNCHANGED <<fs, now, call, epelCsv, df, dhCsv, table, shares, totalFrom>>

TransformOsName ==
    /\ CanCall("rows")
    /\ \E n \in {"Rocky Linux", "Fedora"} :
          mem' = Alloc(mem, RowsObject(FilterByOsName(mem.heap[mem.cur].rows, n)))
    /\ op' = [name |-> "filter_by_os_name"]
    /\ UNCHANGED <<fs, now, call, epelCsv, df, dhCsv, table, shares, totalFrom>>

TransformArch ==
    /\ CanCall("rows")
    /\ \E a \in {"altarch", "x86_64"} :
          mem' = Alloc(mem, RowsObject(FilterByArch(mem.heap[mem.cur].rows, a)))
    /\ op' = [name |-> "filter_by_arch"]
    /\ UNCHANGED <<fs, now, call, epelCsv, df, dhCsv, table, shares, totalFrom>>

TransformVersions ==
    /\ CanCall("rows")
    /\ mem' = Alloc(mem, RowsObject(FilterValidRockyVersions(mem.heap[mem.cur].rows)))
    /\ op' = [name |-> "filter_valid_rocky_versions"]
    /\ UNCHANGED <<fs, now, call, epelCsv, df, dhCsv, table, shares, totalFrom>>

TransformAddTotal ==
    /\ CanCall("table")
    /\ mem' = Alloc(mem, TableObject(AddTotalColumn(mem.heap[mem.cur].tab)))
    /\ op' = [name |-> "add_total_column"]
    /\ UNCHANGED <<fs, now, call, epelCsv, df, dhCsv, table, shares, totalFrom>>

\* the caller assigns into the returned table in place:
\* result['hits'] = 0, or result[:] = 0 for a canonical table
ZeroHits(d) == [i \in 1..Len(d) |-> [d[i] EXCEPT !.hits = 0]]
ZeroCells(t) ==
    [t EXCEPT !.cell = [i \in 1..Len(t.index) |-> [c \in Range(t.columns) |-> 0]]]

ModifyResult ==
    /\ mem.calls > 0 /\ ~mem.modified
    /\ LET o == mem.heap[mem.cur]
       IN  mem' = [mem EXCEPT !.modified = TRUE,
                              !.heap[mem.cur] =
                                  IF o.kind = "rows" THEN RowsObject(ZeroHits(o.rows))
                                  ELSE TableObject(ZeroCells(o.tab))]
    /\ UNCHANGED <<fs, now, call, epelCsv, df, dhCsv, table, op, shares, totalFrom>>

StartMem(obj) ==
    [heap |-> <<obj>>, arg |-> 0, cur |-> 1, calls |-> 0, orig |-> obj, modified |-> FALSE]

InitAlias ==
    /\ \/ \E n \in 1..MaxFrameRows : \E d \in [1..n -> FrameRows] :
            mem = StartMem(RowsObject([i \in 1..n |-> [d[i] EXCEPT !.idx = i - 1]]))
       \/ \E names \in (SUBSET {"Fedora", "Rocky Linux"}) \ {{}} :
            \E cells \in [1..1 -> [names -> 1..MaxCell]] :
                mem = StartMem(TableObject([index |-> TableDates(1),
                                            columns |-> SortNames(names),
                                            cell |-> cells]))
    /\ fs = NoFile /\ now = 0 /\ call = NoCall
    /\ epelCsv = EmptyCsv /\ df = <<>> /\ dhCsv = EmptyDh
    /\ table = EmptyTable /\ op = NoOp /\ shares = <<>> /\ totalFrom = EmptyTable

NextAlias ==
    \/ TransformAge \/ TransformDate \/ TransformRepoTag \/ TransformOsName
    \/ TransformArch \/ TransformVersions \/ TransformAddTotal \/ ModifyResult

SpecAlias == InitAlias /\ [][NextAlias]_vars

(***************************************************************************)
(* C11: every transform returns a table that is a different object from    *)
(* its input and leaves the input as it was, so the original table keeps   *)
(* its rows and columns whatever is later done to a returned table.        *)
(***************************************************************************)
C11_TransformsReturnNewTables ==
    mem.calls > 0 =>
        /\ mem.cur # mem.arg
        /\ mem.heap[1] = mem.orig

(***************************************************************************)
(* C9: every canonical table has its columns inside DISTROS and no date    *)
(* twice in its index.                                                     *)
(***************************************************************************)
NoDuplicates(s) == \A i, j \in 1..Len(s) : s[i] = s[j] => i = j

C9_CanonicalColumns ==
    (\/ op.name = "create_pivot_table"
     \/ op.name = "load_dockerhub_data" /\ op.status = "ok") =>
        /\ Range(table.columns) \subseteq Range(DISTROS)
        /\ NoDuplicates(table.index)

====
